---------------------------- MODULE Spec2Model ----------------------------
(***************************************************************************)
(* CommandQueue (src/CommandQueue.hpp): a double-buffered command queue.   *)
(* Producer threads append variable-length command records to the arena    *)
(* they take out of the atomic slot `primary`; one worker thread swaps     *)
(* arenas through `primary` / `secondary`, walks the arena it obtained and *)
(* calls every record's handler.                                           *)
(*                                                                         *)
(* Every access to shared memory (an atomic exchange, the CAS, the store   *)
(* to secondary, a read of `shutdown`, a mutex or condition variable call, *)
(* one handler call of the walk) is one step of the thread that makes it.  *)
(***************************************************************************)
EXTENDS Integers, Sequences, FiniteSets, TLC

(***************************************************************************)
(* Bounds of the model.                                                    *)
(***************************************************************************)
\* number of producer threads that may use the queue
NumProducers == 2
\* number of calls (execute or join) the producer threads make at most, together
MaxCalls == 3
\* the `size` argument given to the constructor CommandQueue( size )
CtorSize == 32
\* largest number of arguments of a call of rawExecute(), and largest number
\* of bytes executeWithCopy() is given
MaxArgs == 6
\* the value of the first argument of a call: add( 3, 4 )
FirstArg == 3
\* number of allocCommand calls followed word by word
MaxAllocs == 3

(***************************************************************************)
(* Program constants.                                                      *)
(***************************************************************************)
\* nullptr
NULL == 0
\* sizeof( TCB* ), sizeof( PFNCommandHandler* ): a pointer of the 64-bit build
PtrSize == 8
\* sizeof( uint32_t ): the length slot
U32Size == 4
\* 2^16: the number of values of one half of a uint32_t
Half == 65536
\* sizeof( int )
IntSize == 4
\* sizeof( char )
CharSize == 1

Producers == 1..NumProducers
\* the callables the client passes to returns()
Functions == {"add", "function"}

\* the two elements of queue_buffer_t buffer[ 2 ], named by index + 1
Arenas == {1, 2}

VARIABLES
    threads,     \* the producer threads that use the queue
    buffer,      \* buffer[a] = [commands, size, used]: queue_buffer_t buffer[ 2 ]
    primary,     \* std::atomic< queue_buffer_t* > primary
    secondary,   \* std::atomic< queue_buffer_t* > secondary
    shutdown,    \* bool volatile shutdown
    mtxDequeue,  \* std::mutex mtxDequeue: "free", or held by the "worker" or by a "joiner"
    wpc,         \* the worker's position in thread()
    wbuf,        \* thread()'s local `buffer`
    base_addr,   \* thread()'s cursor, as an offset from buffer->commands
    ppc,         \* ppc[p]: producer p's position in execute() / join()
    pbuf,        \* pbuf[p]: the local `buffer` of p's execute()
    pkind,       \* pkind[p]: the call p makes or made last: "execute" or "join"
    pseq,        \* pseq[p]: number of calls p has made (the sequence number of its last record)
    done,        \* done[p]: the local `bool done` of p's join()
    ticket,      \* number of successful acquireBuffer calls so far
    executed,    \* the records whose handler the worker has called: << producer, seq, ticket, handler >>
    calls,       \* number of handler calls the worker has made (benchmark.cpp: calls++)
    ret,         \* ret[p]: the variable of thread p that returns() is given the address of
    expect,      \* expect[p]: what the callable of p's last returns() yields on its arguments
    written,     \* << producer, seq, bytes >>: the payload each raw enqueue wrote
    received,    \* << producer, seq, bytes >>: the payload each raw handler call read
    arities,     \* the numbers of arguments the client passes to returns() and rawExecute()
    alloc,       \* one arena's size, used and initial capacity as uint32_t words, the
                 \* position in allocCommand and the number of calls made
    installer,   \* the thread that made the last store to primary: the
                 \* "constructor", the "worker" or a "producer"
    dpc          \* position of the thread that runs ~CommandQueue()

vars == << threads, buffer, primary, secondary, shutdown, mtxDequeue, wpc, wbuf,
           base_addr, ppc, pbuf, pkind, pseq, done, ticket, executed, calls, ret,
           expect, written, received, arities, alloc, installer, dpc >>

(***************************************************************************)
(* uint32_t.  A value is the pair << high half, low half >> of its two     *)
(* 16-bit halves; the arithmetic is modulo 2^32.                           *)
(***************************************************************************)
Add32(a, b) ==
    LET lo == a[2] + b[2]
        hi == a[1] + b[1] + (lo \div Half)
    IN  << hi % Half, lo % Half >>

\* a > b
Gt32(a, b) == a[1] > b[1] \/ (a[1] = b[1] /\ a[2] > b[2])

\* buffer->size *= 2
Mul2_32(a) == Add32(a, a)

U32(n) == << n \div Half, n % Half >>

\* the arena of a queue on which allocCommand is not followed word by word
NoAlloc == [pc |-> "none", size |-> U32(CtorSize), used |-> U32(0),
            cap |-> U32(CtorSize), n |-> 0, odd |-> FALSE]

(***************************************************************************)
(* Command records.  A record is the handler slot, the length slot and     *)
(* the payload; prod, seq and ticket name the call that wrote it.          *)
(***************************************************************************)
\* the `size` argument execute( function ) passes to allocCommand
executeV0Size == PtrSize + PtrSize

\* the `size` argument execute( function, v1, v2 ) passes for join's
\* execute( join_cb, this, &done ): two pointer parameters
executeV2Size == PtrSize + PtrSize + PtrSize + PtrSize

\* the call that wrote record rec: the producer, the number of the call among
\* that producer's calls, its position in the order of successful
\* acquireBuffer calls, and the handler
Call(rec) == << rec.prod, rec.seq, rec.ticket, rec.function >>

\* sum of the length slots of the first n records of cmds
RECURSIVE Offset(_, _)
Offset(cmds, n) == IF n = 0 THEN 0 ELSE Offset(cmds, n - 1) + cmds[n].size

\* the record the cursor points at: the one that starts at offset off
RecordAt(cmds, off) ==
    cmds[CHOOSE i \in 1..Len(cmds) : Offset(cmds, i - 1) = off]

\* ::realloc( commands, size ): the block keeps its bytes up to `size`, so
\* the records that end within `size` bytes are the ones still there
realloc(cmds, size) ==
    SubSeq(cmds, 1, Cardinality({i \in 1..Len(cmds) : Offset(cmds, i) <= size}))

\* allocCommand writing the new record at the start of the arena, in front
\* of the records already there (base taken as 0 instead of buffer->used)
allocCommand_front(b, function, size, data, p, seq, t) ==
    LET reserved == PtrSize + U32Size + size
        used1    == b.used + reserved
        RECURSIVE Grow(_)
        Grow(s)  == IF used1 > s THEN Grow(s * 2) ELSE s
        size1    == IF used1 > b.size THEN Grow(b.size * 2) ELSE b.size
        command  == [function |-> function, size |-> reserved, data |-> data,
                     prod |-> p, seq |-> seq, ticket |-> t]
    IN  [commands |-> << command >> \o b.commands, size |-> size1, used |-> used1]

\* allocCommand: append a record of `size` payload bytes to arena b
allocCommand(b, function, size, data, p, seq, t) ==
    LET reserved == PtrSize + U32Size + size
        used1    == b.used + reserved
        RECURSIVE Grow(_)
        Grow(s)  == IF used1 > s THEN Grow(s * 2) ELSE s
        size1    == IF used1 > b.size THEN Grow(b.size * 2) ELSE b.size
        commands == IF used1 > b.size THEN realloc(b.commands, size1) ELSE b.commands
        command  == [function |-> function, size |-> reserved, data |-> data,
                     prod |-> p, seq |-> seq, ticket |-> t]
    IN  [commands |-> Append(commands, command), size |-> size1, used |-> used1]

(***************************************************************************)
(* Payloads.  The payload of a record is a memory of cells, one per value  *)
(* stored, keyed by the offset of the store from the pointer that          *)
(* allocCommand returned.  A cell is a tagged value: an int or a char,     *)
(* the address of a callable, the address of a variable.                   *)
(***************************************************************************)
\* what a read of memory that was never written yields
Garbage == << "garbage", 0 >>

\* *( ( T* ) ( data + off ) ) = v
Store(data, off, v) ==
    [o \in (DOMAIN data) \cup {off} |-> IF o = off THEN v ELSE data[o]]

\* *( ( T* ) ( data + off ) )
Load(data, off) == IF off \in DOMAIN data THEN data[off] ELSE Garbage

\* the arguments v1..vn all stored at offset off, each over the one before
RECURSIVE StoreArgs_overlap(_, _, _, _, _)
StoreArgs_overlap(data, off, width, args, n) ==
    IF n = 0 THEN data
    ELSE Store(StoreArgs_overlap(data, off, width, args, n - 1), off, args[n])

\* the stores of the arguments v1..vn, each `width` bytes after the one
\* before, the first at offset off
RECURSIVE StoreArgs(_, _, _, _, _)
StoreArgs(data, off, width, args, n) ==
    IF n = 0 THEN data
    ELSE Store(StoreArgs(data, off, width, args, n - 1),
               off + (n - 1) * width, args[n])

\* the reads of the arguments v1..vn
LoadArgs(data, off, width, n) == [i \in 1..n |-> Load(data, off + (i - 1) * width)]

\* the callables of the client (returns.cpp): ret, inc, add2..add6 are "add";
\* "function" is any other callable, whose result is determined by the
\* list of its arguments
RECURSIVE Sum(_, _)
Sum(args, n) == IF n = 0 THEN 0 ELSE Sum(args, n - 1) + args[n][2]

Apply(function, args) ==
    IF function = << "fn", "add" >>
       THEN << "int", IF Len(args) = 0 THEN 1
                      ELSE IF Len(args) = 1 THEN args[1][2] + 1
                      ELSE Sum(args, Len(args)) >>
       ELSE << "result", function, args >>

Range(f) == {f[x] : x \in DOMAIN f}

\* the handlers returns() installs, by number of arguments
ReturnStubs == << "returnStubV0", "returnStubV1", "returnStubV2", "returnStubV3",
                  "returnStubV4", "returnStubV5", "returnStubV6" >>

\* the `size` argument returns( function, ret, v1..vn ) passes to allocCommand,
\* the arguments being ints
returnsSize(n) == PtrSize + PtrSize + PtrSize + n * IntSize

\* the stores of returns( function, ret, v1..vn ) into the payload
returnsData(function, dest, args) ==
    StoreArgs(Store(Store(<< >>, 0, function), PtrSize, dest),
              PtrSize + PtrSize, IntSize, args, Len(args))

\* returnStubVn( data ): the value **( ( R* ) ( data + sizeof( TCB* ) ) )
\* is assigned
returnStub(data, n) ==
    Apply(Load(data, 0), LoadArgs(data, PtrSize + PtrSize, IntSize, n))

\* the `size` argument rawExecute( function, v1..vn ) passes, the arguments
\* being chars
rawExecuteSize(n) == n * CharSize

\* the stores of rawExecute( function, v1..vn ) into the payload
rawExecuteData(args) == StoreArgs(<< >>, 0, CharSize, args, Len(args))

\* ::memcpy( dst, src, n ), src being a sequence of chars
memcpy(dst, src, n) == StoreArgs(dst, 0, CharSize, src, n)

\* the n bytes a raw handler reads at the pointer it is given
ReadBytes(data, n) == LoadArgs(data, 0, CharSize, n)

(***************************************************************************)
(* Condition variables.  A thread blocked in wait() is at "waiting"        *)
(* (worker, cvDequeue) or "jwaiting" (join(), cvJoin); notify_one moves    *)
(* one blocked thread, if there is one, to the position where it takes     *)
(* the mutex again.                                                        *)
(***************************************************************************)
\* cvDequeue.notify_one(): the worker is the only thread that waits on it
cvDequeue_notify_one(pc) == IF pc = "waiting" THEN "woken" ELSE pc

\* the threads blocked on cvJoin
cvJoinWaiters == {p \in threads : ppc[p] = "jwaiting"}

(***************************************************************************)
(* Construction.                                                           *)
(***************************************************************************)
\* init( size ): both arenas empty with capacity `size`; the worker thread
\* is created and has not run yet
init(size) ==
    /\ buffer = [a \in Arenas |-> [commands |-> << >>, size |-> size, used |-> 0]]
    /\ wpc = "start"
    /\ wbuf = NULL
    /\ base_addr = 0

\* the members of a constructed CommandQueue, and producer threads that
\* have made no call yet
Queue(size) ==
    /\ init(size)
    /\ primary = 1
    /\ installer = "constructor"
    /\ secondary = 2
    /\ shutdown = FALSE
    /\ mtxDequeue = "free"
    /\ ppc = [p \in Producers |-> "idle"]
    /\ pbuf = [p \in Producers |-> NULL]
    /\ pkind = [p \in Producers |-> "execute"]
    /\ pseq = [p \in Producers |-> 0]
    /\ done = [p \in Producers |-> FALSE]
    /\ ticket = 0
    /\ executed = {}
    /\ calls = 0
    /\ ret = [p \in Producers |-> << "int", 0 >>]
    /\ expect = [p \in Producers |-> << >>]
    /\ written = {}
    /\ received = {}
    /\ dpc = "alive"

\* the queue after construction, used by every producer thread
Init ==
    /\ alloc = NoAlloc
    /\ threads = Producers
    /\ arities = {}
    /\ Queue(CtorSize)

\* the queue after construction, used by one producer thread
InitOne ==
    /\ alloc = NoAlloc
    /\ threads = {1}
    /\ arities = {}
    /\ Queue(CtorSize)

wvars == << wpc, wbuf, base_addr >>
pvars == << threads, ppc, pbuf, pkind, pseq >>
hvars == << ticket, executed, calls, ret, expect, written, received, arities, alloc >>

(***************************************************************************)
(* The worker: CommandQueue::thread().                                     *)
(***************************************************************************)
\* line 94 taken as false whatever buffer->used holds: the worker never
\* walks the arena it obtained
thread_used_skip(b) == wpc' = "shutdown" /\ UNCHANGED base_addr

\* line 94: if ( buffer->used ), lines 96-97: base_addr and end; line 106
\* is reached when the arena is empty.  The worker owns arena b here.
thread_used(b) ==
    IF buffer[b].used # 0
       THEN wpc' = "walk" /\ base_addr' = 0
       ELSE wpc' = "shutdown" /\ UNCHANGED base_addr

\* the worker's first read of secondary as a load: the arena stays in the slot
thread_start_load ==
    /\ wpc = "start"
    /\ wbuf' = secondary
    /\ wpc' = "swap"
    /\ UNCHANGED << buffer, primary, secondary, shutdown, mtxDequeue, base_addr, pvars,
                    done, hvars, dpc, installer >>

\* line 85: queue_buffer_t* buffer = secondary.exchange( nullptr )
thread_start ==
    /\ wpc = "start"
    /\ wbuf' = secondary
    /\ secondary' = NULL
    /\ wpc' = "swap"
    /\ UNCHANGED << buffer, primary, shutdown, mtxDequeue, base_addr, pvars, done,
                    hvars, dpc, installer >>

\* line 89 as primary.exchange( nullptr ): the worker takes the arena of
\* primary and installs none
thread_swap_null ==
    /\ wpc = "swap"
    /\ wbuf' = primary
    /\ primary' = NULL
    /\ installer' = "worker"
    /\ IF primary = NULL
          THEN wpc' = "spin" /\ UNCHANGED base_addr
          ELSE thread_used(primary)
    /\ UNCHANGED << buffer, secondary, shutdown, mtxDequeue, pvars, done, hvars, dpc >>

\* line 89: buffer = primary.exchange( buffer ), then line 91 and line 94
thread_swap ==
    /\ wpc = "swap"
    /\ wbuf' = primary
    /\ primary' = wbuf
    /\ installer' = "worker"
    /\ IF primary = NULL
          THEN wpc' = "spin" /\ UNCHANGED base_addr
          ELSE thread_used(primary)
    /\ UNCHANGED << buffer, secondary, shutdown, mtxDequeue, pvars, done, hvars, dpc >>

\* the inner loop reading secondary with a load instead of an exchange: the
\* arena stays in the slot
thread_spin_load ==
    /\ wpc = "spin"
    /\ secondary # NULL
    /\ wbuf' = secondary
    /\ thread_used(secondary)
    /\ UNCHANGED << buffer, primary, secondary, shutdown, mtxDequeue, pvars, done,
                    hvars, dpc, installer >>

\* lines 91-92: while ( buffer == nullptr ) buffer = secondary.exchange( nullptr ),
\* then line 94 (an exchange that returns nullptr changes nothing and is a
\* stuttering step)
thread_spin ==
    /\ wpc = "spin"
    /\ secondary # NULL
    /\ wbuf' = secondary
    /\ secondary' = NULL
    /\ thread_used(secondary)
    /\ UNCHANGED << buffer, primary, shutdown, mtxDequeue, pvars, done, hvars, dpc,
                    installer >>

\* line 101 adding the length of the payload only, without the handler slot
\* and the length slot
AfterCall_payload(rec) ==
    /\ base_addr' = base_addr + rec.size - PtrSize - U32Size
    /\ wpc' = IF base_addr + rec.size - PtrSize - U32Size < buffer[wbuf].used
                 THEN "walk" ELSE "reset"

\* the position after a handler returned: line 101 (base_addr += size) and
\* line 103 (while ( base_addr < end ))
AfterCall(rec) ==
    /\ base_addr' = base_addr + rec.size
    /\ wpc' = IF base_addr + rec.size < buffer[wbuf].used THEN "walk" ELSE "reset"

\* the variable a returnStub assigns through the pointer in the payload
returnStub_call(rec) ==
    LET n    == CHOOSE i \in 0..6 : ReturnStubs[i + 1] = rec.function
        dest == Load(rec.data, PtrSize)
    IN  [ret EXCEPT ![dest[2]] = returnStub(rec.data, n)]

\* the bytes the client's raw handler reads: the payload, whose length is
\* the record's length without the handler slot and the length slot
handler_call(rec) ==
    << rec.prod, rec.seq, ReadBytes(rec.data, (rec.size - PtrSize - U32Size) \div CharSize) >>

\* line 100: the handler call.  executeStubV0 calls the producer's function;
\* executeStubV2 of a join sentinel calls join_cb, whose first statement is
\* line 663: *done = true; a returnStub assigns the callable's result; a
\* raw handler is the client's own function and reads the payload
thread_call ==
    /\ wpc = "walk"
    /\ LET rec == RecordAt(buffer[wbuf].commands, base_addr)
       IN  /\ executed' = executed \cup {Call(rec)}
           /\ calls' = calls + 1
           /\ ret' = IF rec.function \in Range(ReturnStubs)
                        THEN returnStub_call(rec) ELSE ret
           /\ received' = IF rec.function = "handler"
                             THEN received \cup {handler_call(rec)} ELSE received
           /\ IF rec.function = "executeStubV2"
                 THEN /\ done' = [done EXCEPT ![rec.data[3]] = TRUE]
                      /\ wpc' = "join_cb"
                      /\ UNCHANGED base_addr
                 ELSE /\ AfterCall(rec)
                      /\ UNCHANGED done
    /\ UNCHANGED << buffer, primary, secondary, shutdown, mtxDequeue, wbuf, pvars,
                    ticket, expect, written, arities, alloc, dpc, installer >>

\* line 664: commandQ->cvJoin.notify_one(), then join_cb returns to the walk
join_cb_notify ==
    /\ wpc = "join_cb"
    /\ \/ /\ cvJoinWaiters = {}
          /\ UNCHANGED ppc
       \/ \E q \in cvJoinWaiters : ppc' = [ppc EXCEPT ![q] = "jwoken"]
    /\ AfterCall(RecordAt(buffer[wbuf].commands, base_addr))
    /\ UNCHANGED << threads, buffer, primary, secondary, shutdown, mtxDequeue, wbuf,
                    pbuf, pkind, pseq, done, hvars, dpc, installer >>

\* the walk ending without line 104: used keeps its value and the records
\* stay in the arena
thread_reset_keep ==
    /\ wpc = "reset"
    /\ wpc' = "swap"
    /\ UNCHANGED << buffer, primary, secondary, shutdown, mtxDequeue, wbuf, base_addr,
                    pvars, done, hvars, dpc, installer >>

\* line 104: buffer->used = 0 (the bytes of the arena are dead from here on:
\* every read of the walk is below `used`)
thread_reset ==
    /\ wpc = "reset"
    /\ buffer' = [buffer EXCEPT ![wbuf] = [@ EXCEPT !.used = 0, !.commands = << >>]]
    /\ wpc' = "swap"
    /\ UNCHANGED << primary, secondary, shutdown, mtxDequeue, wbuf, base_addr, pvars,
                    done, hvars, dpc, installer >>

\* lines 106-107: else if ( this->shutdown ) break
thread_shutdown ==
    /\ wpc = "shutdown"
    /\ wpc' = IF shutdown THEN "exit" ELSE "lock"
    /\ UNCHANGED << buffer, primary, secondary, shutdown, mtxDequeue, wbuf, base_addr,
                    pvars, done, hvars, dpc, installer >>

\* line 110: std::unique_lock<std::mutex> lock( mtxDequeue )
thread_lock ==
    /\ wpc = "lock"
    /\ mtxDequeue = "free"
    /\ mtxDequeue' = "worker"
    /\ wpc' = "wait"
    /\ UNCHANGED << buffer, primary, secondary, shutdown, wbuf, base_addr, pvars,
                    done, hvars, dpc, installer >>

\* line 111: cvDequeue.wait( lock ) releases the mutex and blocks
thread_wait ==
    /\ wpc = "wait"
    /\ mtxDequeue' = "free"
    /\ wpc' = "waiting"
    /\ UNCHANGED << buffer, primary, secondary, shutdown, wbuf, base_addr, pvars,
                    done, hvars, dpc, installer >>

\* line 111: wait() may return without a notification (a spurious wake-up)
thread_spurious ==
    /\ wpc = "waiting"
    /\ wpc' = "woken"
    /\ UNCHANGED << buffer, primary, secondary, shutdown, mtxDequeue, wbuf, base_addr,
                    pvars, done, hvars, dpc, installer >>

\* lines 111-112: the woken wait() takes the mutex again and returns, then
\* lock.unlock() and the next iteration of while ( true )
thread_woken ==
    /\ wpc = "woken"
    /\ mtxDequeue = "free"
    /\ wpc' = "swap"
    /\ UNCHANGED << buffer, primary, secondary, shutdown, mtxDequeue, wbuf, base_addr,
                    pvars, done, hvars, dpc, installer >>

thread ==
    \/ thread_start \/ thread_swap \/ thread_spin \/ thread_call \/ join_cb_notify
    \/ thread_reset \/ thread_shutdown \/ thread_lock \/ thread_wait \/ thread_woken

(***************************************************************************)
(* A producer: execute( function ) and join().                             *)
(***************************************************************************)
\* the record execute( function ) or join()'s execute( join_cb, this, &done )
\* appends: lines 348 and 368-371, allocCommand and the writes of the payload
execute_alloc(b, p, kind, seq, t) ==
    IF kind = "join"
       THEN allocCommand(b, "executeStubV2", executeV2Size,
                            << "join_cb", "this", p >>, p, seq, t)
       ELSE allocCommand(b, "executeStubV0", executeV0Size,
                            << "function" >>, p, seq, t)

\* acquireBuffer, lines 145-152: the exchange that returns an arena (an
\* exchange that returns nullptr changes nothing and is a stuttering step),
\* then the record is written into the arena the producer now owns.
\* A call of kind "join" is join(): line 669 (bool done = false), then
\* line 670: execute( join_cb, this, &done )
acquireBuffer(p, kind) ==
    /\ ppc[p] = "idle"
    /\ dpc = "alive"
    /\ ticket < MaxCalls
    /\ primary # NULL
    /\ pbuf' = [pbuf EXCEPT ![p] = primary]
    /\ primary' = NULL
    /\ installer' = "producer"
    /\ pkind' = [pkind EXCEPT ![p] = kind]
    /\ pseq' = [pseq EXCEPT ![p] = @ + 1]
    /\ ticket' = ticket + 1
    /\ done' = IF kind = "join" THEN [done EXCEPT ![p] = FALSE] ELSE done
    /\ buffer' = [buffer EXCEPT ![primary] =
                     execute_alloc(@, p, kind, pseq[p] + 1, ticket + 1)]
    /\ ppc' = [ppc EXCEPT ![p] = "release"]
    /\ UNCHANGED << threads, secondary, shutdown, mtxDequeue, wvars, executed,
                    calls, ret, expect, written, received, arities, alloc, dpc >>

\* the compare-exchange failing whatever primary holds
releaseBuffer_cas_fail(p) ==
    /\ ppc[p] = "release"
    /\ ppc' = [ppc EXCEPT ![p] = "store"]
    /\ UNCHANGED << threads, buffer, primary, secondary, shutdown, mtxDequeue, wvars,
                    pbuf, pkind, pseq, done, hvars, dpc, installer >>

\* line 159: primary.compare_exchange_strong( exp = nullptr, buffer )
releaseBuffer_cas(p) ==
    /\ ppc[p] = "release"
    /\ IF primary = NULL
          THEN /\ primary' = pbuf[p]
               /\ installer' = "producer"
               /\ pbuf' = [pbuf EXCEPT ![p] = NULL]
               /\ ppc' = [ppc EXCEPT ![p] = "notify"]
          ELSE /\ ppc' = [ppc EXCEPT ![p] = "store"]
               /\ UNCHANGED << primary, installer, pbuf >>
    /\ UNCHANGED << threads, buffer, secondary, shutdown, mtxDequeue, wvars, pkind,
                    pseq, done, hvars, dpc >>

\* line 160 left out: the producer whose compare-exchange failed keeps its
\* arena and goes on to notify
releaseBuffer_keep(p) ==
    /\ ppc[p] = "store"
    /\ ppc' = [ppc EXCEPT ![p] = "notify"]
    /\ UNCHANGED << threads, buffer, primary, secondary, shutdown, mtxDequeue, wvars,
                    pbuf, pkind, pseq, done, hvars, dpc, installer >>

\* line 160: secondary = buffer
releaseBuffer_store(p) ==
    /\ ppc[p] = "store"
    /\ secondary' = pbuf[p]
    /\ pbuf' = [pbuf EXCEPT ![p] = NULL]
    /\ ppc' = [ppc EXCEPT ![p] = "notify"]
    /\ UNCHANGED << threads, buffer, primary, shutdown, mtxDequeue, wvars, pkind,
                    pseq, done, hvars, dpc, installer >>

\* releaseBuffer returning without line 161: no thread is woken
releaseBuffer_return(p) ==
    /\ ppc[p] = "notify"
    /\ ppc' = [ppc EXCEPT ![p] = IF pkind[p] = "join" THEN "jlock" ELSE "idle"]
    /\ UNCHANGED << threads, buffer, primary, secondary, shutdown, mtxDequeue, wvars,
                    pbuf, pkind, pseq, done, hvars, dpc, installer >>

\* line 161: this->cvDequeue.notify_one(); execute() returns, and join()
\* goes on to line 671
releaseBuffer_notify(p) ==
    /\ ppc[p] = "notify"
    /\ wpc' = cvDequeue_notify_one(wpc)
    /\ ppc' = [ppc EXCEPT ![p] = IF pkind[p] = "join" THEN "jlock" ELSE "idle"]
    /\ UNCHANGED << threads, buffer, primary, secondary, shutdown, mtxDequeue, wbuf,
                    base_addr, pbuf, pkind, pseq, done, hvars, dpc, installer >>

\* cvJoin.wait( lock ) without the predicate: join() returns on any wake-up
join_pred_any(p) ==
    ppc' = [ppc EXCEPT ![p] = "idle"] /\ UNCHANGED mtxDequeue

\* cvJoin.wait( lock, pred ) is while ( !done ) wait( lock ): the position
\* after the read of done with the mutex held.  When done is set, wait
\* returns, line 673 (lock.unlock()) runs and join() returns
join_pred(p) ==
    IF done[p]
       THEN ppc' = [ppc EXCEPT ![p] = "idle"] /\ UNCHANGED mtxDequeue
       ELSE ppc' = [ppc EXCEPT ![p] = "jwait"] /\ mtxDequeue' = "joiner"

\* line 671: std::unique_lock<std::mutex> lock( this->mtxDequeue ), then the
\* first read of done of line 672
join_lock(p) ==
    /\ ppc[p] = "jlock"
    /\ mtxDequeue = "free"
    /\ join_pred(p)
    /\ UNCHANGED << threads, buffer, primary, secondary, shutdown, wvars, pbuf, pkind,
                    pseq, done, hvars, dpc, installer >>

\* line 672: wait( lock ) releases the mutex and blocks
join_wait(p) ==
    /\ ppc[p] = "jwait"
    /\ mtxDequeue' = "free"
    /\ ppc' = [ppc EXCEPT ![p] = "jwaiting"]
    /\ UNCHANGED << threads, buffer, primary, secondary, shutdown, wvars, pbuf, pkind,
                    pseq, done, hvars, dpc, installer >>

\* line 672: wait() may return without a notification (a spurious wake-up)
join_spurious(p) ==
    /\ ppc[p] = "jwaiting"
    /\ ppc' = [ppc EXCEPT ![p] = "jwoken"]
    /\ UNCHANGED << threads, buffer, primary, secondary, shutdown, mtxDequeue, wvars,
                    pbuf, pkind, pseq, done, hvars, dpc, installer >>

\* line 672: the woken wait() takes the mutex again, then done is read again
join_woken(p) ==
    /\ ppc[p] = "jwoken"
    /\ mtxDequeue = "free"
    /\ join_pred(p)
    /\ UNCHANGED << threads, buffer, primary, secondary, shutdown, wvars, pbuf, pkind,
                    pseq, done, hvars, dpc, installer >>

\* acquireBuffer followed by allocCommand( buffer, function, size ) and the
\* stores that leave `data` in the payload, as made by the other forms of
\* enqueue
acquireBuffer_alloc(p, kind, function, size, data) ==
    /\ ppc[p] = "idle"
    /\ dpc = "alive"
    /\ ticket < MaxCalls
    /\ primary # NULL
    /\ pbuf' = [pbuf EXCEPT ![p] = primary]
    /\ primary' = NULL
    /\ installer' = "producer"
    /\ pkind' = [pkind EXCEPT ![p] = kind]
    /\ pseq' = [pseq EXCEPT ![p] = @ + 1]
    /\ ticket' = ticket + 1
    /\ buffer' = [buffer EXCEPT ![primary] =
                     allocCommand(@, function, size, data, p, pseq[p] + 1, ticket + 1)]
    /\ ppc' = [ppc EXCEPT ![p] = "release"]
    /\ UNCHANGED << threads, secondary, shutdown, mtxDequeue, wvars, done, executed,
                    calls, ret, received, arities, alloc, dpc >>

\* the arguments the client passes: n values, FirstArg, FirstArg + 1, ...
Args(type, n) == [i \in 1..n |-> << type, FirstArg + i - 1 >>]

\* returns( function, &r, v1..vn ), lines 438-535: the enqueue; r is the
\* variable of the calling thread
returns(p) ==
    \E n \in arities, f \in Functions :
        LET function == << "fn", f >>
            args     == Args("int", n)
        IN  /\ acquireBuffer_alloc(p, "returns", ReturnStubs[n + 1], returnsSize(n),
                                   returnsData(function, << "var", p >>, args))
            /\ expect' = [expect EXCEPT ![p] = Apply(function, args)]
            /\ UNCHANGED written

\* rawExecute( handler, v1..vn ), lines 541-623: the enqueue
rawExecute(p) ==
    \E n \in arities :
        LET args == Args("char", n)
        IN  /\ acquireBuffer_alloc(p, "rawExecute", "handler", rawExecuteSize(n),
                                   rawExecuteData(args))
            /\ written' = written \cup {<< p, pseq[p] + 1, args >>}
            /\ UNCHANGED expect

\* executeWithCopy( handler, data, size ), lines 629-637: the enqueue; data
\* points at `size` chars of the client
executeWithCopy(p) ==
    \E size \in arities :
        LET src == Args("char", size)
        IN  /\ acquireBuffer_alloc(p, "executeWithCopy", "handler", size,
                                   memcpy(<< >>, src, size))
            /\ written' = written \cup {<< p, pseq[p] + 1, src >>}
            /\ UNCHANGED expect

execute(p) ==
    \/ acquireBuffer(p, "execute")
    \/ releaseBuffer_cas(p)
    \/ releaseBuffer_store(p)
    \/ releaseBuffer_notify(p)

join(p) ==
    \/ acquireBuffer(p, "join")
    \/ join_lock(p)
    \/ join_wait(p)
    \/ join_woken(p)

(***************************************************************************)
(* Destruction: ~CommandQueue().  The destructor runs when no producer     *)
(* is inside a call, and no call is made once it has started (a            *)
(* concurrent or later enqueue is a programming error).                    *)
(***************************************************************************)
\* line 332: this->shutdown = true
Destructor_shutdown ==
    /\ dpc = "alive"
    /\ \A p \in threads : ppc[p] = "idle"
    /\ shutdown' = TRUE
    /\ dpc' = "notify"
    /\ UNCHANGED << buffer, primary, secondary, mtxDequeue, wvars, pvars, done, hvars,
                    installer >>

\* line 333: this->cvDequeue.notify_one()
Destructor_notify ==
    /\ dpc = "notify"
    /\ wpc' = cvDequeue_notify_one(wpc)
    /\ dpc' = "join"
    /\ UNCHANGED << buffer, primary, secondary, shutdown, mtxDequeue, wbuf, base_addr,
                    pvars, done, hvars, installer >>

\* lines 334-336: this->hThread->join() returns once thread() has returned,
\* then both arenas are freed
Destructor_join ==
    /\ dpc = "join"
    /\ wpc = "exit"
    /\ dpc' = "destroyed"
    /\ UNCHANGED << buffer, primary, secondary, shutdown, mtxDequeue, wvars, pvars,
                    done, hvars, installer >>

Destructor == Destructor_shutdown \/ Destructor_notify \/ Destructor_join

Spurious == thread_spurious \/ \E p \in threads : join_spurious(p)

Next ==
    \/ thread
    \/ \E p \in threads : execute(p)
    \/ \E p \in threads : join(p)
    \/ Destructor
    \/ Spurious

\* any number of producer threads
Spec == Init /\ [][Next]_vars

\* the threads go on running: the worker takes a step whenever thread() can
\* take one, and a producer inside releaseBuffer finishes it
SpecLive ==
    /\ Init
    /\ [][Next]_vars
    /\ WF_vars(thread)
    /\ \A p \in Producers :
          WF_vars(releaseBuffer_cas(p) \/ releaseBuffer_store(p) \/ releaseBuffer_notify(p))

\* two producer threads that also call returns() with two arguments
InitReturns ==
    /\ alloc = NoAlloc
    /\ threads = Producers
    /\ arities = {2}
    /\ Queue(CtorSize)

NextReturns ==
    \/ Next
    \/ \E p \in threads : returns(p)

SpecReturns == InitReturns /\ [][NextReturns]_vars

\* one producer thread that also enqueues raw records, with payloads of 0 to
\* MaxArgs bytes
InitForms ==
    /\ alloc = NoAlloc
    /\ threads = {1}
    /\ arities = 0..MaxArgs
    /\ Queue(CtorSize)

NextForms ==
    \/ Next
    \/ \E p \in threads : rawExecute(p)
    \/ \E p \in threads : executeWithCopy(p)

SpecForms == InitForms /\ [][NextForms]_vars

\* exactly one producer thread
SpecOne == InitOne /\ [][Next]_vars

(***************************************************************************)
(* allocCommand word by word: the reserve step on one arena whose size     *)
(* and used are uint32_t, for the capacities the constructor accepts.      *)
(***************************************************************************)
\* the `size` arguments of the constructor
Capacities ==
    {U32(0), U32(1), U32(CtorSize), U32(256), << 32768, 0 >>, << 45056, 1 >>,
     << 65535, 65535 >>}

\* the `size` arguments of allocCommand: rawExecute( function ) passes 0,
\* execute( function ) passes 16, executeWithCopy() passes the caller's
\* size, here 65535 and 2^30
RecordSizes == {U32(0), U32(executeV0Size), U32(65535), << 16384, 0 >>}

\* init( size ), lines 127-131, for one arena
InitAlloc ==
    /\ alloc \in {[pc |-> "idle", size |-> c, used |-> U32(0), cap |-> c, n |-> 0,
                     odd |-> FALSE] : c \in Capacities}
    /\ threads = {1}
    /\ arities = {}
    /\ Queue(CtorSize)

qvars == << threads, buffer, primary, secondary, shutdown, mtxDequeue, wpc, wbuf,
           base_addr, ppc, pbuf, pkind, pseq, done, ticket, executed, calls, ret,
           expect, written, received, arities, installer, dpc >>

\* lines 171-174: reserved, buffer->used += reserved, if ( used > size )
allocCommand_reserve ==
    /\ alloc.pc = "idle"
    /\ alloc.n < MaxAllocs
    /\ \E size \in RecordSizes :
          LET reserved == Add32(U32(PtrSize + U32Size), size)
              used     == Add32(alloc.used, reserved)
          IN  alloc' = [alloc EXCEPT !.used = used, !.n = @ + 1,
                                     !.pc = IF Gt32(used, alloc.size)
                                               THEN "grow" ELSE "return"]
    /\ UNCHANGED qvars

\* lines 176-177: do buffer->size *= 2; while ( buffer->used > buffer->size ),
\* one iteration; odd is the parity of the number of iterations made
allocCommand_double ==
    /\ alloc.pc = "grow"
    /\ LET size == Mul2_32(alloc.size)
       IN  alloc' = [alloc EXCEPT !.size = size, !.odd = ~@,
                                  !.pc = IF Gt32(alloc.used, size)
                                            THEN "grow" ELSE "return"]
    /\ UNCHANGED qvars

\* lines 178-185: realloc when the arena grew, the header is written,
\* allocCommand returns
allocCommand_return ==
    /\ alloc.pc = "return"
    /\ alloc' = [alloc EXCEPT !.pc = "idle"]
    /\ UNCHANGED qvars

\* line 104: the worker's buffer->used = 0 after a walk of the arena
allocCommand_reset ==
    /\ alloc.pc = "idle"
    /\ alloc.used # U32(0)
    /\ alloc' = [alloc EXCEPT !.used = U32(0)]
    /\ UNCHANGED qvars

NextAlloc ==
    \/ allocCommand_reserve
    \/ allocCommand_double
    \/ allocCommand_return
    \/ allocCommand_reset

\* a thread inside allocCommand goes on running
SpecAlloc ==
    /\ InitAlloc
    /\ [][NextAlloc]_vars
    /\ WF_vars(allocCommand_double)
    /\ WF_vars(allocCommand_return)

(***************************************************************************)
(* Properties.                                                             *)
(***************************************************************************)
\* the records that are in arena a
Records(a) == {buffer[a].commands[i] : i \in 1..Len(buffer[a].commands)}

\* the calls whose record is in an arena and whose handler has not been called
Pending == {Call(r) : r \in Records(1) \cup Records(2)} \ executed

\* the sequence numbers of the records of producer p that have been executed
ExecutedOf(p) == {e[2] : e \in {x \in executed : x[1] = p}}

\* no record of p has been executed while an earlier record of p has not
FIFO(p) == \A s \in ExecutedOf(p) : \A r \in 1..s : r \in ExecutedOf(p)

\* join() has returned on thread p, and p has made no call since
JoinReturned(p) == ppc[p] = "idle" /\ pkind[p] = "join" /\ pseq[p] > 0

\* no producer is inside execute(): between acquireBuffer and the return
EnqueuesReturned == \A p \in threads : ppc[p] \notin {"release", "store", "notify"}

\* the number of places that hold arena a: the two slots, the worker's
\* local `buffer`, every producer's local `buffer`
Holders(a) ==
    (IF primary = a THEN 1 ELSE 0) + (IF secondary = a THEN 1 ELSE 0)
    + (IF wbuf = a THEN 1 ELSE 0) + Cardinality({p \in threads : pbuf[p] = a})

\* C1: with one producer thread, the worker never calls the handler of a
\* record while a record that the producer enqueued earlier has not been
\* executed: the executed records of the producer are always its first k.
C1_SingleProducerFIFO == FIFO(1)

\* the producer's two records have both been executed, out of different arenas
C1_Witness ==
    /\ threads = {1}
    /\ ExecutedOf(1) = 1..2
    /\ wpc = "reset"
    /\ Len(buffer[wbuf].commands) = 1

\* C2: with several producer threads, the records of every producer are
\* executed in that producer's enqueue order.
C2_PerProducerFIFO == \A p \in threads : FIFO(p)

\* C3: when join() has returned on a thread, every record that thread
\* enqueued before the join (and the sentinel) has been executed.
C3_JoinFence ==
    \A p \in threads : JoinReturned(p) => ExecutedOf(p) = 1..pseq[p]

\* C4: with no shutdown requested and every enqueue returned, the worker is
\* not blocked on cvDequeue while an arena in primary or secondary holds a
\* record.
C4_NoLostWakeup ==
    (wpc = "waiting" /\ dpc = "alive" /\ EnqueuesReturned)
        => \A a \in Arenas : (primary = a \/ secondary = a) => buffer[a].used = 0

\* C5: with one producer thread, the joiner is not blocked on cvJoin once its
\* sentinel has set done and called notify_one.
C5_JoinReturns ==
    ~(ppc[1] = "jwaiting" /\ done[1] /\ wpc # "join_cb")

\* C6: with several threads in join(), once every sentinel has set its done
\* flag and notified and the worker has gone idle, no joiner is left blocked
\* on cvJoin: the join of one thread has not returned at the expense of
\* another.
C6_ConcurrentJoinsReturn ==
    \A p, q \in threads :
        ~(/\ p # q
          /\ ppc[p] = "jwaiting" /\ done[p]
          /\ JoinReturned(q)
          /\ wpc = "waiting"
          /\ \A r \in threads : ppc[r] \in {"idle", "jwaiting"})

\* C7: every arena is in exactly one place among primary, secondary, the
\* worker and the producers.
C7_ArenaConservation == \A a \in Arenas : Holders(a) = 1

\* a producer whose CAS failed holds one arena and is about to store it in
\* secondary, while another producer holds the other arena
C7_Witness ==
    \E p, q \in threads :
        /\ p # q
        /\ ppc[p] = "store"
        /\ pbuf[p] # NULL /\ pbuf[q] # NULL
        /\ wpc = "spin"

\* C8: when the worker has left its loop after a run without join(), every
\* enqueued command has been executed and both arenas are empty.
C8_ShutdownDrains ==
    (wpc = "exit" /\ \A e \in executed \cup Pending : e[4] # "executeStubV2")
        => /\ \A a \in Arenas : buffer[a].used = 0
           /\ \A p \in threads : ExecutedOf(p) = 1..pseq[p]

\* C9: once the destructor has set shutdown and notified cvDequeue, the
\* worker is not blocked in cvDequeue.wait.
C9_DestructorTerminates == dpc = "join" => wpc # "waiting"

\* C10: records of different producers are executed in the order of their
\* producers' successful acquireBuffer calls: no record has been executed
\* while a record of another producer with an earlier acquire has not.
C10_GlobalAcquireOrder ==
    \A e \in executed : \A x \in Pending : x[1] # e[1] => x[3] > e[3]

\* C11: when join() has returned on a thread that called returns( f, &r,
\* a1..an ) before it, r holds f( a1..an ).
C11_ReturnRoundTrip ==
    \A p \in threads : (JoinReturned(p) /\ expect[p] # << >>) => ret[p] = expect[p]

\* C12: the bytes every raw handler call read are the bytes the enqueue of
\* that record wrote, in the same order and of the same length.
C12_PayloadFidelity == received \subseteq written

\* the handler has read the MaxArgs bytes of a raw record that was the first
\* of its arena, after a later enqueue made the arena grow
C12_Witness ==
    /\ wpc = "reset"
    /\ buffer[wbuf].size > CtorSize
    /\ Len(buffer[wbuf].commands) >= 2
    /\ buffer[wbuf].commands[1].function = "handler"
    /\ << 1, buffer[wbuf].commands[1].seq, Args("char", MaxArgs) >> \in received

\* C13: with one producer thread, when join() has returned (and nothing was
\* enqueued after it) every command has been executed exactly once and both
\* arenas have used = 0.
C13_JoinLeavesArenasEmpty ==
    JoinReturned(1) =>
        /\ ExecutedOf(1) = 1..pseq[1]
        /\ calls = pseq[1]
        /\ \A a \in Arenas : buffer[a].used = 0

\* c multiplied by 2^k, when that is a uint32_t
RECURSIVE Times2(_, _)
Times2(c, k) ==
    IF k = 0 THEN c
    ELSE LET h == Times2(c, k - 1)
         IN  IF h[1] < 0 \/ h[1] >= Half \div 2 THEN << -1, -1 >> ELSE Mul2_32(h)

\* C14: the capacity of an arena never decreases, it is the initial capacity
\* multiplied by a power of two, and used <= size once allocCommand has
\* reserved the record.
C14_CapacityMonotone ==
    /\ [][~Gt32(alloc.size, alloc'.size)]_vars
    /\ [](\E k \in 0..32 : alloc.size = Times2(alloc.cap, k))
    /\ [](alloc.pc \in {"return", "idle"} => ~Gt32(alloc.used, alloc.size))

\* C15: for every initial capacity and every record size the doubling loop
\* of allocCommand ends, and allocCommand returns with size >= used.
C15_ReserveTerminates ==
    /\ (alloc.pc = "grow") ~> (alloc.pc = "return")
    /\ [](alloc.pc = "return" => ~Gt32(alloc.used, alloc.size))

\* the queue is at rest: no producer is between acquireBuffer and
\* releaseBuffer and the worker is blocked on cvDequeue
AtRest == wpc = "waiting" /\ \A p \in threads : pbuf[p] = NULL

\* C16 as stated: at rest primary and secondary hold the two arenas, one
\* each, and neither is null.
C16_SlotsHoldBothAtRest ==
    AtRest => (primary # NULL /\ secondary # NULL /\ primary # secondary)

\* C16: at rest the worker holds one arena, primary holds the other and
\* secondary is null.
C16_AtRest ==
    AtRest => (primary # NULL /\ secondary = NULL /\ wbuf # NULL /\ wbuf # primary)

\* the queue is at rest again after the worker has executed a record
C16_Witness == AtRest /\ calls > 0 /\ \A p \in threads : ppc[p] = "idle"

\* arena a is held by a thread: it is the worker's or a producer's `buffer`
Held(a) == wbuf = a \/ \E p \in threads : pbuf[p] = a

\* C17 as stated: at most one of primary and secondary is null.
C17_AtMostOneNull == ~(primary = NULL /\ secondary = NULL)

\* C17: primary and secondary are both null exactly when each of the two
\* arenas is held by a thread.
C17_BothNullIffBothHeld ==
    (primary = NULL /\ secondary = NULL) <=> (\A a \in Arenas : Held(a))

\* both slots are null: the worker holds one arena, a producer the other
C17_Witness ==
    /\ primary = NULL /\ secondary = NULL
    /\ wbuf # NULL
    /\ \E p \in threads : pbuf[p] # NULL /\ pbuf[p] # wbuf

\* the sentinel of the join() that thread p called last has been executed
SentinelExecuted(p) ==
    \E e \in executed : e[1] = p /\ e[2] = pseq[p] /\ e[4] = "executeStubV2"

\* C18: a join() that has returned had its own sentinel executed.
C18_JoinWaitsForOwnSentinel ==
    \A p \in threads : JoinReturned(p) => SentinelExecuted(p)

\* a joiner has been woken while its own done flag is false, after the
\* sentinel of the other thread's join() was executed
C18_Witness ==
    \E p, q \in threads :
        /\ p # q
        /\ ppc[p] = "jwoken" /\ ~done[p] /\ ~SentinelExecuted(p)
        /\ pkind[q] = "join" /\ SentinelExecuted(q)

\* C19: when join() has returned, no record of another producer whose
\* acquireBuffer succeeded before the acquireBuffer of the join's sentinel
\* is still unexecuted.
C19_JoinCoversEarlierRecords ==
    \A p \in threads :
        JoinReturned(p) =>
            \A e \in executed : \A x \in Pending :
                (e[1] = p /\ e[2] = pseq[p] /\ x[1] # p) => x[3] > e[3]

\* C20: no record is executed twice: the number of handler calls made is
\* the number of distinct records executed, and never exceeds the number
\* of records enqueued.
C20_AtMostOnce == calls = Cardinality(executed) /\ calls <= ticket

\* the first arena has been walked, reset and walked again: the third
\* record enqueued is alone in it and all three records have been executed
C20_Witness ==
    /\ wpc = "reset"
    /\ wbuf = 1
    /\ Len(buffer[1].commands) = 1
    /\ buffer[1].commands[1].ticket = 3
    /\ calls = 3

\* C21: whenever the worker is about to execute primary.exchange( buffer ),
\* the arena it hands in is non-null and empty: used is 0 and it holds no
\* record.
C21_WorkerInstallsEmptyArena ==
    wpc = "swap" => /\ wbuf # NULL
                    /\ buffer[wbuf].used = 0
                    /\ buffer[wbuf].commands = << >>

\* the worker has walked and reset an arena and is about to exchange it for
\* the arena in primary, which holds a record
C21_Witness ==
    /\ wpc = "swap"
    /\ calls > 0
    /\ primary # NULL
    /\ buffer[primary].used > 0

\* C22: in every step in which the worker enters cvDequeue.wait (line 111:
\* it releases mtxDequeue and blocks), both arenas have used = 0 and
\* shutdown is false.
C22_WaitsOnlyWhenIdle ==
    [][(wpc = "wait" /\ wpc' = "waiting")
          => /\ \A a \in Arenas : buffer[a].used = 0
             /\ ~shutdown]_vars

\* C23: whenever a producer's compare-exchange on primary fails (its
\* releaseBuffer goes on to store the arena in secondary), the arena in
\* primary was put there by the worker, not by another producer.
C23_SecondaryPathOnlyAfterWorker ==
    [][\A p \in threads :
          (ppc[p] = "release" /\ ppc'[p] = "store") => installer = "worker"]_vars

\* C24: whenever the worker's exchange on primary returned nullptr and the
\* worker spins on secondary, a producer eventually stores an arena into
\* secondary and the worker takes it.
C24_SpinTerminates == (wpc = "spin") ~> (wpc # "spin" /\ wbuf # NULL)

\* the worker spins and a producer has stored an arena with a record in
\* secondary
C24_Witness ==
    /\ wpc = "spin"
    /\ secondary # NULL
    /\ buffer[secondary].used > 0

\* bytes [ 0 .. used ) of arena a are a concatenation of records: every
\* length slot covers at least the handler slot and the length slot, the
\* lengths add up to used, and the records lie in the order of their enqueues
WellFormed(a) ==
    LET cmds == buffer[a].commands
    IN  /\ \A i \in 1..Len(cmds) : cmds[i].size >= PtrSize + U32Size
        /\ Offset(cmds, Len(cmds)) = buffer[a].used
        /\ \A i, j \in 1..Len(cmds) : i < j => cmds[i].ticket < cmds[j].ticket

\* C25: every arena is a concatenation of well-formed records; while the
\* worker walks an arena, used > 0, the cursor is at the start of a record
\* below `end`, the records before the cursor are the ones executed and the
\* records after it are not; the walk ends with the cursor at used exactly.
C25_WalkCorrect ==
    /\ \A a \in Arenas : WellFormed(a)
    /\ wpc \in {"walk", "join_cb"} =>
          LET cmds == buffer[wbuf].commands
          IN  /\ buffer[wbuf].used > 0
              /\ base_addr < buffer[wbuf].used
              /\ \E i \in 1..Len(cmds) :
                    /\ Offset(cmds, i - 1) = base_addr
                    /\ \A j \in 1..(i - 1) : Call(cmds[j]) \in executed
                    /\ \A j \in (i + 1)..Len(cmds) : Call(cmds[j]) \notin executed
                    /\ (Call(cmds[i]) \in executed) <=> (wpc = "join_cb")
    /\ wpc = "reset" =>
          /\ base_addr = buffer[wbuf].used
          /\ \A r \in Records(wbuf) : Call(r) \in executed

\* the worker has walked to the end of an arena that grew and holds records
\* of different lengths
C25_Witness ==
    /\ wpc = "reset"
    /\ buffer[wbuf].size > CtorSize
    /\ Len(buffer[wbuf].commands) >= 2
    /\ buffer[wbuf].commands[1].size # buffer[wbuf].commands[2].size
    /\ base_addr = buffer[wbuf].used

\* sizeof of the value in a payload cell: a callable or the address of a
\* variable is a pointer, an argument is an int or a char
Width(cell) ==
    IF cell[1] \in {"fn", "var"} THEN PtrSize
    ELSE IF cell[1] = "int" THEN IntSize ELSE CharSize

\* the handlers of the typed forms execute() and returns()
TypedStubs == {"executeStubV0", "executeStubV2"} \cup Range(ReturnStubs)

\* the number of payload bytes the stores of an enqueue cover: callable,
\* return destination and arguments.  The payload of an execute() record
\* is the list of the pointers stored (the callable; join_cb, this, &done)
StoredBytes(rec) ==
    IF rec.function \in {"executeStubV0", "executeStubV2"}
       THEN Len(rec.data) * PtrSize
       ELSE LET ends == {off + Width(rec.data[off]) : off \in DOMAIN rec.data}
            IN  IF ends = {} THEN 0 ELSE CHOOSE e \in ends : \A x \in ends : x <= e

\* C26: the length slot of every record of a typed form is the handler slot,
\* the length slot and the bytes of the payload stored (callable, return
\* destination, arguments), with no additional bytes.
C26_TypedLengthExact ==
    \A a \in Arenas : \A r \in Records(a) :
        r.function \in TypedStubs => r.size = PtrSize + U32Size + StoredBytes(r)

\* C27: a step that changes an arena is either an enqueue, which appends
\* exactly one record to the arena it took out of primary (used grows by
\* that record's length, the records already there keep their place) and
\* leaves the other arena alone, or the worker's reset of used to 0 on the
\* arena it has just walked; and every enqueue is such a step.
C27_EnqueueAppendsOne ==
    [][/\ \A a \in Arenas :
             buffer'[a] # buffer[a] =>
                 LET cmds  == buffer[a].commands
                     cmds1 == buffer'[a].commands
                 IN  /\ \A b \in Arenas \ {a} : buffer'[b] = buffer[b]
                     /\ \/ /\ primary = a
                           /\ ticket' = ticket + 1
                           /\ \E p \in threads : pbuf[p] = NULL /\ pbuf'[p] = a
                           /\ Len(cmds1) = Len(cmds) + 1
                           /\ SubSeq(cmds1, 1, Len(cmds)) = cmds
                           /\ buffer'[a].used = buffer[a].used + cmds1[Len(cmds1)].size
                        \/ /\ wpc = "reset"
                           /\ wbuf = a
                           /\ base_addr = buffer[a].used
                           /\ buffer'[a].used = 0
       /\ ticket' # ticket => \E a \in Arenas : buffer'[a] # buffer[a]]_vars

\* a producer has appended a record behind an earlier one, which made the
\* arena grow, while the other arena holds a record too
C27_Witness ==
    \E p \in threads :
        /\ ppc[p] = "release"
        /\ Len(buffer[pbuf[p]].commands) >= 2
        /\ buffer[pbuf[p]].size > CtorSize
        /\ \E b \in Arenas \ {pbuf[p]} : buffer[b].used > 0

\* C28: once the worker has made its first step, secondary is non-null only
\* while the worker holds no arena and spins in its inner loop, and the
\* arena in secondary then holds at least one record; a producer about to
\* execute the store `secondary = buffer` finds secondary null.
C28_SecondaryOnlyWhileSpinning ==
    /\ (wpc # "start" /\ secondary # NULL) =>
          /\ wpc = "spin"
          /\ wbuf = NULL
          /\ buffer[secondary].used > 0
    /\ \A p \in threads : ppc[p] = "store" => secondary = NULL

\* after the worker executed a record, it spins again and a producer has
\* stored its arena in secondary while the emptied arena is in primary
C28_Witness ==
    /\ wpc = "spin"
    /\ calls > 0
    /\ secondary # NULL
    /\ primary # NULL
    /\ buffer[primary].used = 0

\* C29: primary is null only while a producer is between acquireBuffer and
\* releaseBuffer (it holds an arena); so when no producer holds an arena,
\* whatever the worker is doing, primary is non-null and an acquireBuffer
\* succeeds on its first exchange.
C29_PrimaryNullOnlyWhileHeld ==
    primary = NULL => \E p \in threads : pbuf[p] # NULL

\* the worker is in the middle of a walk (or blocked on cvDequeue after
\* one), no producer holds an arena, and primary holds an arena
C29_Witness ==
    /\ wpc \in {"walk", "waiting"}
    /\ calls > 0
    /\ \A p \in threads : pbuf[p] = NULL
    /\ primary # NULL

\* C30 as stated: a release whose compare-exchange on primary succeeds is
\* done without signalling: the producer does not go on to notify_one.
C30_SignalOnlyOnSecondaryPath ==
    [][\A p \in threads :
          (ppc[p] = "release" /\ primary = NULL /\ ppc'[p] # "release")
              => ppc'[p] # "notify"]_vars

\* C30: a release signals cvDequeue on both paths: after a successful
\* compare-exchange and after the store to secondary alike, the producer
\* goes on to notify_one, which wakes the worker when it is blocked.
C30_SignalOnBothPaths ==
    [][\A p \in threads :
          /\ (ppc[p] = "release" /\ ppc'[p] # "release")
                => ppc'[p] = IF primary = NULL THEN "notify" ELSE "store"
          /\ (ppc[p] = "store" /\ ppc'[p] # "store") => ppc'[p] = "notify"
          /\ (ppc[p] = "notify" /\ ppc'[p] # "notify" /\ wpc = "waiting")
                => wpc' = "woken"]_vars

\* a producer whose compare-exchange succeeded (its arena, holding its
\* record, is in primary) is about to call notify_one while the worker is
\* blocked on cvDequeue
C30_Witness ==
    \E p \in threads :
        /\ ppc[p] = "notify"
        /\ wpc = "waiting"
        /\ secondary = NULL
        /\ primary # NULL
        /\ \E r \in Records(primary) : r.prod = p /\ r.seq = pseq[p]

=============================================================================
